---- MODULE Spec2Model ----
(***************************************************************************)
(* Nyx boot stub: Source/Kernel/boot.cpp.                                  *)
(*                                                                         *)
(* main() is a straight line of statements: printf, Py_Initialize, two     *)
(* PyRun_SimpleString calls, Py_Finalize, return 0.  The model follows one *)
(* or two runs of the process.  Each run has its own environment           *)
(* (arguments, kind of standard output, PYTHONUNBUFFERED), the two         *)
(* user-space buffers that sit in front of file descriptor 1 (the C stdio  *)
(* buffer of stdout and the buffer of the interpreter's sys.stdout), and   *)
(* the lines that have actually reached file descriptor 1.                 *)
(*                                                                         *)
(* The runtime calls are modelled by their documented C-API contract:      *)
(*   Py_Initialize      returns nothing; a failed initialization is a      *)
(*                      fatal error (the runtime aborts the process);      *)
(*   PyRun_SimpleString returns 0, or -1 when an exception was raised;     *)
(*   Py_Finalize        flushes buffered data and ignores a failed flush.  *)
(* main() reads none of these results.                                     *)
(***************************************************************************)
EXTENDS Integers, Sequences, FiniteSets, TLC

VARIABLES argc, tty, unbuffered, pc, phase, calls, interp, cbuf, pybuf, fd1, failed, exit

vars == <<argc, tty, unbuffered, pc, phase, calls, interp, cbuf, pybuf, fd1, failed, exit>>

\* Largest argument count a run is started with (main ignores it).
MaxArgc == 2

\* The line printed by boot.cpp:5.
Greeting == "Hello from Nyx OS!"

\* The line printed by the statement of boot.cpp:7.
PyGreeting == "Hello from Embedded Python"

\* The line printed by the statement of boot.cpp:8 (the text of sys.version).
PyVersion == "sys.version"

\* ------------------------------------------------------------------------
\* Variants of main() with a slip in them, used to test the properties below.

\* main() with the interpreter used before it is initialized.
MainBody_RunBeforeInit ==
    << [op |-> "printf",             arg |-> Greeting],
       [op |-> "PyRun_SimpleString", arg |-> PyGreeting],
       [op |-> "Py_Initialize",      arg |-> ""],
       [op |-> "PyRun_SimpleString", arg |-> PyVersion],
       [op |-> "Py_Finalize",        arg |-> ""],
       [op |-> "return",             arg |-> "0"] >>

\* main() that forgets Py_Finalize.
MainBody_NoFinalize ==
    << [op |-> "printf",             arg |-> Greeting],
       [op |-> "Py_Initialize",      arg |-> ""],
       [op |-> "PyRun_SimpleString", arg |-> PyGreeting],
       [op |-> "PyRun_SimpleString", arg |-> PyVersion],
       [op |-> "return",             arg |-> "0"] >>

\* main() that returns a failure status.
MainBody_ReturnOne ==
    << [op |-> "printf",             arg |-> Greeting],
       [op |-> "Py_Initialize",      arg |-> ""],
       [op |-> "PyRun_SimpleString", arg |-> PyGreeting],
       [op |-> "PyRun_SimpleString", arg |-> PyVersion],
       [op |-> "Py_Finalize",        arg |-> ""],
       [op |-> "return",             arg |-> "1"] >>

\* main() with the second script statement placed after Py_Finalize.
MainBody_RunAfterFinalize ==
    << [op |-> "printf",             arg |-> Greeting],
       [op |-> "Py_Initialize",      arg |-> ""],
       [op |-> "PyRun_SimpleString", arg |-> PyGreeting],
       [op |-> "Py_Finalize",        arg |-> ""],
       [op |-> "PyRun_SimpleString", arg |-> PyVersion],
       [op |-> "return",             arg |-> "0"] >>

\* ------------------------------------------------------------------------
\* The statements of main(), boot.cpp:5-10, in program order.
MainBody ==
    << [op |-> "printf",             arg |-> Greeting],
       [op |-> "Py_Initialize",      arg |-> ""],
       [op |-> "PyRun_SimpleString", arg |-> PyGreeting],
       [op |-> "PyRun_SimpleString", arg |-> PyVersion],
       [op |-> "Py_Finalize",        arg |-> ""],
       [op |-> "return",             arg |-> "0"] >>

\* The value of the return statement as a process exit status.
StatusOf(arg) == IF arg = "0" THEN 0 ELSE 1

\* A main() that skips the first script statement when it is given arguments.
NextCall_ArgDependent(k, nargs) ==
    IF nargs > 1 /\ MainBody[k].op = "PyRun_SimpleString" /\ MainBody[k].arg = PyGreeting
    THEN MainBody[k + 1]
    ELSE MainBody[k]

\* The statement main() executes at position k.  main() is declared
\* `int main()`: it has no parameters, so the argument count nargs of the run is
\* not consulted.
NextCall(k, nargs) == MainBody[k]

\* A main() that checks the result of a call and goes straight to its return
\* statement when the call reports an error.
AfterCall_Checked(k, result) == IF result < 0 THEN Len(MainBody) ELSE k + 1

\* The position main() continues at after the call at position k returned
\* result.  Every call of main() is an expression statement: its result is
\* discarded and control falls through to the next statement.
AfterCall(k, result) == k + 1

\* The statement run r is about to execute.
Stmt(r) == NextCall(pc[r], argc[r])

Running(r) == phase[r] = "running" /\ pc[r] \in DOMAIN MainBody

\* stdout of the C library is line buffered when it refers to a terminal and
\* fully buffered otherwise.
CLineBuffered(r) == tty[r]

\* sys.stdout of the interpreter is line buffered on a terminal, block buffered
\* otherwise, and written through when PYTHONUNBUFFERED is set.
PyLineBuffered(r) == tty[r] \/ unbuffered[r]

\* failed[r] is the set of statements of run r whose call reported or suffered
\* a failure; main() keeps no such record, it is kept here to state properties.

\* The record of a library call: the call, its argument and the
\* state of the interpreter at the moment of the call.
CallRecord(r) == [op |-> Stmt(r).op, arg |-> Stmt(r).arg, interp |-> interp[r]]

RunInit(R) ==
    /\ argc \in [R -> 1..MaxArgc]
    /\ tty \in [R -> BOOLEAN]
    /\ unbuffered \in [R -> BOOLEAN]
    /\ pc = [r \in R |-> 1]
    /\ phase = [r \in R |-> "running"]
    /\ calls = [r \in R |-> <<>>]
    /\ interp = [r \in R |-> "uninit"]
    /\ cbuf = [r \in R |-> <<>>]
    /\ pybuf = [r \in R |-> <<>>]
    /\ fd1 = [r \in R |-> <<>>]
    /\ failed = [r \in R |-> {}]
    /\ exit = [r \in R |-> <<>>]

\* One run of the program.
Init == RunInit({1})

\* Two runs of the program, side by side.
PairInit == RunInit({1, 2})

\* boot.cpp:5  printf("Hello from Nyx OS!\n");
Printf(r) ==
    /\ Running(r)
    /\ Stmt(r).op = "printf"
    /\ IF CLineBuffered(r)
       THEN /\ fd1' = [fd1 EXCEPT ![r] = @ \o cbuf[r] \o <<Stmt(r).arg>>]
            /\ cbuf' = [cbuf EXCEPT ![r] = <<>>]
       ELSE /\ cbuf' = [cbuf EXCEPT ![r] = Append(@, Stmt(r).arg)]
            /\ fd1' = fd1
    /\ calls' = [calls EXCEPT ![r] = Append(@, CallRecord(r))]
    /\ pc' = [pc EXCEPT ![r] = AfterCall(@, 1)]
    /\ UNCHANGED <<argc, tty, unbuffered, phase, interp, pybuf, failed, exit>>

\* boot.cpp:6  Py_Initialize();
\* Either the interpreter comes up and the call returns, or initialization
\* fails, which the runtime treats as a fatal error: it aborts the process
\* (SIGABRT, status 134).  Whether abort() flushes the stdio buffer is
\* implementation-defined.  A call on an initialized interpreter is a no-op.
Py_Initialize(r) ==
    /\ Running(r)
    /\ Stmt(r).op = "Py_Initialize"
    /\ calls' = [calls EXCEPT ![r] = Append(@, CallRecord(r))]
    /\ \/ /\ interp' = [interp EXCEPT ![r] = "init"]
          /\ pc' = [pc EXCEPT ![r] = @ + 1]
          /\ UNCHANGED <<phase, cbuf, fd1, failed, exit>>
       \/ /\ interp[r] # "init"
          /\ phase' = [phase EXCEPT ![r] = "aborted"]
          /\ exit' = [exit EXCEPT ![r] = <<134>>]
          /\ failed' = [failed EXCEPT ![r] = @ \cup {Stmt(r)}]
          /\ \E flushed \in BOOLEAN :
                /\ fd1' = [fd1 EXCEPT ![r] = IF flushed THEN @ \o cbuf[r] ELSE @]
                /\ cbuf' = [cbuf EXCEPT ![r] = <<>>]
          /\ UNCHANGED <<pc, interp>>
    /\ UNCHANGED <<argc, tty, unbuffered, pybuf>>

\* boot.cpp:7-8  PyRun_SimpleString("...");
\* On an initialized interpreter the statement either runs and prints its line
\* to sys.stdout (result 0) or raises an exception and prints nothing to
\* standard output (result -1).  main() discards the result.  A call on an
\* interpreter that is not initialized is undefined: it crashes (SIGSEGV,
\* status 139) or returns an error.
PyRun_SimpleString(r) ==
    /\ Running(r)
    /\ Stmt(r).op = "PyRun_SimpleString"
    /\ calls' = [calls EXCEPT ![r] = Append(@, CallRecord(r))]
    /\ IF interp[r] = "init"
       THEN /\ \/ /\ IF PyLineBuffered(r)
                     THEN /\ fd1' = [fd1 EXCEPT ![r] = @ \o pybuf[r] \o <<Stmt(r).arg>>]
                          /\ pybuf' = [pybuf EXCEPT ![r] = <<>>]
                     ELSE /\ pybuf' = [pybuf EXCEPT ![r] = Append(@, Stmt(r).arg)]
                          /\ fd1' = fd1
                  /\ failed' = failed
                  /\ pc' = [pc EXCEPT ![r] = AfterCall(@, 0)]
               \/ /\ failed' = [failed EXCEPT ![r] = @ \cup {Stmt(r)}]
                  /\ pc' = [pc EXCEPT ![r] = AfterCall(@, -1)]
                  /\ UNCHANGED <<pybuf, fd1>>
            /\ UNCHANGED <<phase, exit>>
       ELSE /\ failed' = [failed EXCEPT ![r] = @ \cup {Stmt(r)}]
            /\ UNCHANGED <<pybuf, fd1>>
            /\ \/ /\ phase' = [phase EXCEPT ![r] = "aborted"]
                  /\ exit' = [exit EXCEPT ![r] = <<139>>]
                  /\ pc' = pc
               \/ /\ pc' = [pc EXCEPT ![r] = AfterCall(@, -1)]
                  /\ UNCHANGED <<phase, exit>>
    /\ UNCHANGED <<argc, tty, unbuffered, interp, cbuf>>

\* boot.cpp:9  Py_Finalize();
\* Flushes the interpreter's buffered output and tears the interpreter down.
\* A failed flush loses the buffered lines; Py_Finalize returns nothing, so
\* the failure is not reported.  A call without an initialized interpreter is
\* a no-op.
Py_Finalize(r) ==
    /\ Running(r)
    /\ Stmt(r).op = "Py_Finalize"
    /\ calls' = [calls EXCEPT ![r] = Append(@, CallRecord(r))]
    /\ IF interp[r] = "init"
       THEN /\ interp' = [interp EXCEPT ![r] = "finalized"]
            /\ pybuf' = [pybuf EXCEPT ![r] = <<>>]
            /\ \/ /\ fd1' = [fd1 EXCEPT ![r] = @ \o pybuf[r]]
                  /\ failed' = failed
               \/ /\ failed' = [failed EXCEPT ![r] = @ \cup {Stmt(r)}]
                  /\ fd1' = fd1
       ELSE UNCHANGED <<interp, pybuf, fd1, failed>>
    /\ pc' = [pc EXCEPT ![r] = @ + 1]
    /\ UNCHANGED <<argc, tty, unbuffered, phase, cbuf, exit>>

\* A process exit that does not flush stdio (as _exit would).
Return_NoFlush(r) ==
    /\ Running(r)
    /\ Stmt(r).op = "return"
    /\ phase' = [phase EXCEPT ![r] = "exited"]
    /\ exit' = [exit EXCEPT ![r] = <<StatusOf(Stmt(r).arg)>>]
    /\ UNCHANGED <<argc, tty, unbuffered, pc, calls, interp, cbuf, pybuf, fd1, failed>>

\* boot.cpp:10  return 0;
\* Returning from main exits the process with the returned status; exit
\* flushes the stdio buffer of stdout.
Return(r) ==
    /\ Running(r)
    /\ Stmt(r).op = "return"
    /\ phase' = [phase EXCEPT ![r] = "exited"]
    /\ exit' = [exit EXCEPT ![r] = <<StatusOf(Stmt(r).arg)>>]
    /\ fd1' = [fd1 EXCEPT ![r] = @ \o cbuf[r]]
    /\ cbuf' = [cbuf EXCEPT ![r] = <<>>]
    /\ UNCHANGED <<argc, tty, unbuffered, pc, calls, interp, pybuf, failed>>

Next ==
    \/ \E r \in DOMAIN pc : Printf(r)
    \/ \E r \in DOMAIN pc : Py_Initialize(r)
    \/ \E r \in DOMAIN pc : PyRun_SimpleString(r)
    \/ \E r \in DOMAIN pc : Py_Finalize(r)
    \/ \E r \in DOMAIN pc : Return(r)

Spec == Init /\ [][Next]_vars

\* main() is single-threaded and every call it makes returns or ends the
\* process, so a run that can take a step does take it.
FairSpec == Init /\ [][Next]_vars /\ WF_vars(Next)

PairSpec == PairInit /\ [][Next]_vars

\* ------------------------------------------------------------------------
\* Properties.

Runs == DOMAIN pc

IsPrefix(s, t) == Len(s) <= Len(t) /\ \A i \in 1..Len(s) : s[i] = t[i]

\* The library calls of a run, by name.
Ops(r) == [i \in 1..Len(calls[r]) |-> calls[r][i].op]

\* How many times a call was issued, and how many times a line reached
\* standard output.
CallCount(r, op) == Cardinality({i \in 1..Len(calls[r]) : calls[r][i].op = op})
Delivered(r, line) == Cardinality({i \in 1..Len(fd1[r]) : fd1[r][i] = line})

InitFailed(r) == \E s \in failed[r] : s.op = "Py_Initialize"
Exited(r) == phase[r] = "exited"
Aborted(r) == phase[r] = "aborted"

\* The boot sequence as the specification words it: print, initialize, run the
\* two statements, finalize.
BootSequence ==
    <<"printf", "Py_Initialize", "PyRun_SimpleString", "PyRun_SimpleString", "Py_Finalize">>

\* Standard output as the specification words it.
ExpectedOutput == <<Greeting, PyGreeting, PyVersion>>

\* C1: standard output receives the greeting first, then the interpreter's
\* greeting, then the version string: what has reached standard output is
\* always a prefix of these three lines, and all three once the process exits.
C1_GreetingFirst ==
    \A r \in Runs :
        /\ IsPrefix(fd1[r], ExpectedOutput)
        /\ Exited(r) => fd1[r] = ExpectedOutput

\* C2 as claimed: a run that has ended has ended with status 0, whatever the
\* outcome of initialization, of the executions and of finalization.
C2_AlwaysExitsZero ==
    \A r \in Runs : phase[r] # "running" => exit[r] = <<0>>

\* The end of a run: main returned 0, or the runtime aborted the process
\* because initialization failed.
C2_Ended ==
    \A r \in Runs :
        \/ Exited(r) /\ exit[r] = <<0>>
        \/ Aborted(r) /\ InitFailed(r) /\ exit[r] # <<0>>

\* C2 as amended: every run terminates; it ends with status 0 whatever the
\* outcome of the two executions and of finalization, unless initialization
\* fails, in which case the runtime aborts the process.
C2_Terminates == <>[]C2_Ended

\* A run that exits with status 0 although an execution and finalization failed.
C2_Witness ==
    \E r \in Runs :
        /\ Exited(r) /\ exit[r] = <<0>>
        /\ \E s \in failed[r] : s.op = "PyRun_SimpleString"
        /\ \E s \in failed[r] : s.op = "Py_Finalize"

\* C3: every execute call is made on an initialized interpreter: after a
\* Py_Initialize call and before any Py_Finalize call of the run.
C3_UsedOnlyWhileInitialized ==
    \A r \in Runs : \A i \in 1..Len(calls[r]) :
        calls[r][i].op = "PyRun_SimpleString" =>
            /\ calls[r][i].interp = "init"
            /\ \E j \in 1..(i - 1) : calls[r][j].op = "Py_Initialize"
            /\ \A j \in 1..(i - 1) : calls[r][j].op # "Py_Finalize"

\* A finished run that made both execute calls and then finalized.
C3_Witness ==
    \E r \in Runs :
        /\ Exited(r)
        /\ CallCount(r, "PyRun_SimpleString") = 2
        /\ interp[r] = "finalized"

\* C4 as claimed: after any failure, initialization included, the run ends as
\* a successful one does: all calls issued, status 0.
C4_AnyFailureIgnored ==
    \A r \in Runs :
        (failed[r] # {} /\ phase[r] # "running") =>
            /\ Ops(r) = BootSequence
            /\ Exited(r)
            /\ exit[r] = <<0>>

\* C4 as amended: a failed execution or finalization changes nothing in what
\* main does next: the calls issued so far are the boot sequence up to the
\* current position, a run never ends before the last call, and it ends with
\* status 0.  Only a failed initialization ends the run early, by abort.
C4_ExecFailureIgnored ==
    \A r \in Runs :
        /\ (failed[r] # {} /\ ~InitFailed(r)) =>
              /\ ~Aborted(r)
              /\ IsPrefix(Ops(r), BootSequence)
              /\ Len(calls[r]) = pc[r] - 1
              /\ Exited(r) => (Ops(r) = BootSequence /\ exit[r] = <<0>>)
        /\ Aborted(r) => InitFailed(r)

\* A run in which the first execution failed, the second was still made,
\* finalization was still called and the status is 0.
C4_Witness ==
    \E r \in Runs :
        /\ Exited(r) /\ exit[r] = <<0>>
        /\ [op |-> "PyRun_SimpleString", arg |-> PyGreeting] \in failed[r]
        /\ Ops(r) = BootSequence
        /\ PyVersion \in {fd1[r][i] : i \in 1..Len(fd1[r])}

\* C5 as claimed: every run that has ended performed exactly the boot
\* sequence.
C5_EveryRunAllCalls ==
    \A r \in Runs : phase[r] # "running" => Ops(r) = BootSequence

\* C5 as amended: the calls of a run are always the boot sequence up to the
\* current position, in order and without repetition; a run that returns from
\* main has performed all of them; a run ends early only inside a failed
\* Py_Initialize.
C5_LinearSequence ==
    \A r \in Runs :
        /\ IsPrefix(Ops(r), BootSequence)
        /\ phase[r] = "running" => Len(calls[r]) = pc[r] - 1
        /\ Exited(r) => Ops(r) = BootSequence
        /\ Aborted(r) => (Ops(r) = <<"printf", "Py_Initialize">> /\ InitFailed(r))

\* A run that returned from main with the whole sequence performed.
C5_Witness ==
    \E r \in Runs : Exited(r) /\ Ops(r) = BootSequence /\ failed[r] = {}

C8_SameCallsAndStatus ==
    \A r1, r2 \in Runs :
        (phase[r1] # "running" /\ phase[r2] # "running") =>
            (calls[r1] = calls[r2] /\ exit[r1] = exit[r2])

\* C8 as amended: whatever their arguments and environment, two runs agree on
\* every call either has issued (one sequence is a prefix of the other), they
\* agree on the next call while both are at the same position, and when both
\* return from main they issued the same calls and have the same status.
C8_InputIndependent ==
    \A r1, r2 \in Runs :
        /\ IsPrefix(calls[r1], calls[r2]) \/ IsPrefix(calls[r2], calls[r1])
        /\ (Running(r1) /\ Running(r2) /\ pc[r1] = pc[r2]) => Stmt(r1) = Stmt(r2)
        /\ (Exited(r1) /\ Exited(r2)) => (calls[r1] = calls[r2] /\ exit[r1] = exit[r2])

\* Two finished runs started with different arguments and on different kinds
\* of standard output.
C8_Witness ==
    \E r1, r2 \in Runs :
        /\ argc[r1] # argc[r2] /\ tty[r1] # tty[r2] /\ unbuffered[r1] # unbuffered[r2]
        /\ Exited(r1) /\ Exited(r2)
        /\ failed[r1] # failed[r2]

====
